---- MODULE Spec2Model ----
(***************************************************************************)
(* AABBTree3D of rust-3d (src/src/aa_bb_tree_3d.rs): construction of the   *)
(* axis aligned bounding box tree and its four queries.                    *)
(*                                                                         *)
(* Coordinates are integers.  Element boxes have even coordinates, so that *)
(* the centre of every merged box is an integer as well; query values      *)
(* range over even and odd integers (on, between and outside the element   *)
(* coordinates).                                                           *)
(***************************************************************************)
EXTENDS Integers, Sequences, FiniteSets

\* ------------------------------------------------------------------ bounds
MaxElems == 2
MaxDepth == 3
MaxQueries == 2

\* ------------------------------------------------------------- input sets
Coords == {0, 2}
QueryValues == -1 .. 3

Points == {<<x, y, z>> : x \in Coords, y \in Coords, z \in Coords}

Boxes ==
    {[min |-> lo, max |-> hi] : lo \in Points, hi \in Points} \cap
    {b \in [min : Points, max : Points] : \A a \in 1..3 : b.min[a] <= b.max[a]}

\* An element: a value that reports its bounding box (ok) or fails to (~ok).
\* id is the element's position in the input collection.
ElementKinds ==
    {[ok |-> TRUE, min |-> b.min, max |-> b.max] : b \in Boxes} \cup
    {[ok |-> FALSE, min |-> <<0, 0, 0>>, max |-> <<0, 0, 0>>]}

\* The input collections, up to the order of their elements: the elements of a
\* collection are listed by non-decreasing Rank (an injective code of the kind).
Rank(k) ==
    k.min[1] + 3 * k.min[2] + 9 * k.min[3] +
    27 * k.max[1] + 81 * k.max[2] + 243 * k.max[3] + (IF k.ok THEN 729 ELSE 0)

Inputs ==
    UNION {{[i \in 1..n |-> [id |-> i, ok |-> k[i].ok, min |-> k[i].min, max |-> k[i].max]] :
                k \in {f \in [1..n -> ElementKinds] :
                            \A i \in 1..n : \A j \in i..n : Rank(f[i]) <= Rank(f[j])}} :
           n \in 0..MaxElems}

PointBox(p) == [min |-> p, max |-> p]
Box(lo, hi) == [min |-> lo, max |-> hi]

\* Query boxes: off every element box, on single corners, over everything,
\* and slabs that cut one axis only.  BBColliding adds the merged box of data.
QueryBoxes ==
    {PointBox(<<v, v, v>>) : v \in QueryValues} \cup
    {Box(<<0, 0, 0>>, <<2, 2, 2>>), Box(<<-1, -1, -1>>, <<1, 1, 1>>),
     Box(<<1, 1, 1>>, <<3, 3, 3>>),
     Box(<<1, -1, -1>>, <<3, 3, 3>>), Box(<<-1, 1, -1>>, <<3, 3, 3>>),
     Box(<<-1, -1, 1>>, <<3, 3, 3>>), Box(<<-1, -1, -1>>, <<0, 3, 3>>)}

\* Lines: anchor + t * dir for every real t; the components of dir are -1, 0 or 1.
Line(p, d) == [anchor |-> p, dir |-> d]
Lines ==
    {Line(p, d) : p \in {<<0, 0, 0>>, <<1, 1, 1>>},
                  d \in {<<1, 0, 0>>, <<0, 1, 0>>, <<0, 0, 1>>}} \cup
    {Line(<<0, 0, 0>>, <<1, 1, 1>>), Line(<<2, 0, 0>>, <<-1, 1, 0>>),
     Line(<<3, 3, 3>>, <<1, 0, 0>>), Line(<<2, 2, 2>>, <<0, 0, 1>>)}

\* ------------------------------------------- collaborators (BoundingBox3D)
Ok(v) == [ok |-> TRUE, val |-> v]
Err(v) == [ok |-> FALSE, val |-> v]
unwrap(r) == r.val

bounding_box(x) ==
    IF x.ok THEN Ok([min |-> x.min, max |-> x.max])
            ELSE Err([min |-> x.min, max |-> x.max])

Min2(a, b) == IF a <= b THEN a ELSE b
Max2(a, b) == IF a >= b THEN a ELSE b

consume(bb, other) ==
    [min |-> [a \in 1..3 |-> Min2(bb.min[a], other.min[a])],
     max |-> [a \in 1..3 |-> Max2(bb.max[a], other.max[a])]]

center(p1, p2) == [a \in 1..3 |-> p1[a] + (p2[a] - p1[a]) \div 2]

center_bb(bb) == center(bb.min, bb.max)

collides_with(bb, other) ==
    \A a \in 1..3 : bb.min[a] <= other.max[a] /\ other.min[a] <= bb.max[a]

crossing_x_value(bb, x) == bb.min[1] <= x /\ x <= bb.max[1]
crossing_y_value(bb, y) == bb.min[2] <= y /\ y <= bb.max[2]
crossing_z_value(bb, z) == bb.min[3] <= z /\ z <= bb.max[3]

\* intersection(line, bb).is_some(): some point anchor + t * dir lies in bb.
\* The components of dir are -1, 0 or 1, so the range of t per axis is integral.
intersection(line, bb) ==
    LET p == line.anchor
        d == line.dir
        moving == {a \in 1..3 : d[a] # 0}
        tlo(a) == IF d[a] = 1 THEN bb.min[a] - p[a] ELSE p[a] - bb.max[a]
        thi(a) == IF d[a] = 1 THEN bb.max[a] - p[a] ELSE p[a] - bb.min[a]
    IN  /\ \A a \in (1..3) \ moving : bb.min[a] <= p[a] /\ p[a] <= bb.max[a]
        /\ \A a \in moving : \A b \in moving : tlo(a) <= thi(b)

\* ------------------------------------------------------------ construction
Empty == [tag |-> "Empty"]
NoTree == [tag |-> "None"]

AABBTree3DLeaf_new(data, bb) == [tag |-> "Leaf", data |-> data, bb |-> bb]
\* bug: the Branch caches the box of its left child
AABBTree3DBranch_new_left_box(left, right, bb) ==
    [tag |-> "Branch", left |-> left, right |-> right,
     bb |-> IF left.tag = "Empty" THEN bb ELSE left.bb]

AABBTree3DBranch_new(left, right, bb) ==
    [tag |-> "Branch", left |-> left, right |-> right, bb |-> bb]

RECURSIVE bb_of_loop(_, _, _)
RECURSIVE new_rec(_, _, _)
bb_of_loop(data, i, result) ==
    IF i > Len(data) THEN result
    ELSE bb_of_loop(data, i + 1, consume(result, unwrap(bounding_box(data[i]))))

\* bug: the fold starts from a default box at the origin, not from data[0]
bb_of_from_default(data) ==
    IF Len(data) = 0 THEN Err([min |-> <<0, 0, 0>>, max |-> <<0, 0, 0>>])
    ELSE Ok(bb_of_loop(data, 1, [min |-> <<0, 0, 0>>, max |-> <<0, 0, 0>>]))

bb_of(data) ==
    IF Len(data) = 0 THEN Err([min |-> <<0, 0, 0>>, max |-> <<0, 0, 0>>])
    ELSE Ok(bb_of_loop(data, 1, unwrap(bounding_box(data[1]))))

\* bug: matches on depth, not on depth % 3
Compare_of_no_cycle(depth) ==
    CASE depth = 0 -> "X"
      [] depth = 1 -> "Y"
      [] OTHER -> "Z"

Compare_of(depth) ==
    CASE depth % 3 = 0 -> "X"
      [] depth % 3 = 1 -> "Y"
      [] OTHER -> "Z"

\* bug: the X arm reads the y coordinate of the box
is_left_of_x_reads_y(comp, bb, c) ==
    CASE comp = "X" -> bb.min[2] < c[1]
      [] comp = "Y" -> bb.min[2] < c[2]
      [] comp = "Z" -> bb.min[3] < c[3]

is_left_of(comp, bb, c) ==
    CASE comp = "X" -> bb.min[1] < c[1]
      [] comp = "Y" -> bb.min[2] < c[2]
      [] comp = "Z" -> bb.min[3] < c[3]

\* bug: > for >=
is_right_of_strict(comp, bb, c) ==
    CASE comp = "X" -> bb.max[1] > c[1]
      [] comp = "Y" -> bb.max[2] > c[2]
      [] comp = "Z" -> bb.max[3] > c[3]

is_right_of(comp, bb, c) ==
    CASE comp = "X" -> bb.max[1] >= c[1]
      [] comp = "Y" -> bb.max[2] >= c[2]
      [] comp = "Z" -> bb.max[3] >= c[3]

dleft_of(data, comp, c) ==
    SelectSeq(data, LAMBDA x : is_left_of(comp, unwrap(bounding_box(x)), c))

dright_of(data, comp, c) ==
    SelectSeq(data, LAMBDA x : is_right_of(comp, unwrap(bounding_box(x)), c))

\* bug: only dleft is compared with data
no_progress_left_only(dleft, dright, data) ==
    Len(dleft) = Len(data)

\* bug: > for the second ==
no_progress_strict(dleft, dright, data) ==
    (Len(dleft) = Len(dright)) /\ Len(dleft) > Len(data)

no_progress(dleft, dright, data) ==
    (Len(dleft) = Len(dright)) /\ Len(dleft) = Len(data)

\* bug: > for >=
depth_reached_late(depth, maxdepth) == depth > maxdepth

depth_reached(depth, maxdepth) == depth >= maxdepth

new_rec_split(data, maxdepth, depth) ==
    LET comp == Compare_of(depth)
        bb == unwrap(bb_of(data))
        c == center_bb(bb)
        dleft == dleft_of(data, comp, c)
        dright == dright_of(data, comp, c)
    IN  IF no_progress(dleft, dright, data)
        THEN AABBTree3DLeaf_new(data, bb)
        ELSE AABBTree3DBranch_new(new_rec(dleft, maxdepth, depth + 1),
                                  new_rec(dright, maxdepth, depth + 1), bb)

\* bug: no arm for 0 elements, which then take the arm for many
new_rec_no_empty_arm(data, maxdepth, depth) ==
    CASE Len(data) = 1 -> AABBTree3DLeaf_new(data, unwrap(bb_of(data)))
      [] OTHER ->
            IF depth_reached(depth, maxdepth)
            THEN AABBTree3DLeaf_new(data, unwrap(bb_of(data)))
            ELSE new_rec_split(data, maxdepth, depth)

new_rec(data, maxdepth, depth) ==
    CASE Len(data) = 0 -> Empty
      [] Len(data) = 1 -> AABBTree3DLeaf_new(data, unwrap(bb_of(data)))
      [] OTHER ->
            IF depth_reached(depth, maxdepth)
            THEN AABBTree3DLeaf_new(data, unwrap(bb_of(data)))
            ELSE new_rec_split(data, maxdepth, depth)

\* Every call of new_rec returns exactly one node, and only new_rec makes nodes.
RECURSIVE NumNodes(_)
NumNodes(t) ==
    IF t.tag = "Branch" THEN 1 + NumNodes(t.left) + NumNodes(t.right)
    ELSE IF t.tag = "None" THEN 0 ELSE 1

\* bug: the result of the check is dropped (no ?)
new_unchecked(data, maxdepth) == Ok(new_rec(data, maxdepth, 0))

new(data, maxdepth) ==
    IF \E i \in 1..Len(data) : ~bounding_box(data[i]).ok
    THEN Err(NoTree)
    ELSE Ok(new_rec(data, maxdepth, 0))

\* ------------------------------------------------------------------ queries
RECURSIVE for_each_intersection_candidate(_, _)
RECURSIVE bb_colliding(_, _)
RECURSIVE bb_crossing_x_value(_, _)
RECURSIVE bb_crossing_y_value(_, _)
RECURSIVE bb_crossing_z_value(_, _)

\* The sequence of the callback's arguments, in the order of its invocations.
\* bug: the elements are not tested one by one
leaf_for_each_untested(leaf, line) ==
    IF ~intersection(line, leaf.bb) THEN <<>> ELSE leaf.data

leaf_for_each_intersection_candidate(leaf, line) ==
    IF ~intersection(line, leaf.bb) THEN <<>>
    ELSE SelectSeq(leaf.data, LAMBDA x : intersection(line, unwrap(bounding_box(x))))

\* bug: the elements are not tested one by one
leaf_bb_colliding_untested(leaf, bb) ==
    IF ~collides_with(leaf.bb, bb) THEN <<>> ELSE leaf.data

leaf_bb_colliding(leaf, bb) ==
    IF ~collides_with(leaf.bb, bb) THEN <<>>
    ELSE SelectSeq(leaf.data, LAMBDA x : collides_with(unwrap(bounding_box(x)), bb))

leaf_bb_crossing_x_value(leaf, x) ==
    IF ~crossing_x_value(leaf.bb, x) THEN <<>>
    ELSE SelectSeq(leaf.data, LAMBDA d : crossing_x_value(unwrap(bounding_box(d)), x))

\* bug: copied from the x query, the element test left on x
leaf_bb_crossing_y_value_as_x(leaf, y) ==
    IF ~crossing_y_value(leaf.bb, y) THEN <<>>
    ELSE SelectSeq(leaf.data, LAMBDA d : crossing_x_value(unwrap(bounding_box(d)), y))

leaf_bb_crossing_y_value(leaf, y) ==
    IF ~crossing_y_value(leaf.bb, y) THEN <<>>
    ELSE SelectSeq(leaf.data, LAMBDA d : crossing_y_value(unwrap(bounding_box(d)), y))

\* bug: copied from the x query, both tests left on x
leaf_bb_crossing_z_value_as_x(leaf, z) ==
    IF ~crossing_x_value(leaf.bb, z) THEN <<>>
    ELSE SelectSeq(leaf.data, LAMBDA d : crossing_x_value(unwrap(bounding_box(d)), z))

leaf_bb_crossing_z_value(leaf, z) ==
    IF ~crossing_z_value(leaf.bb, z) THEN <<>>
    ELSE SelectSeq(leaf.data, LAMBDA d : crossing_z_value(unwrap(bounding_box(d)), z))

\* bug: the right subtree is visited first
branch_for_each_right_first(branch, line) ==
    IF ~intersection(line, branch.bb) THEN <<>>
    ELSE for_each_intersection_candidate(branch.right, line)
            \o for_each_intersection_candidate(branch.left, line)

\* bug: the right subtree is not visited
branch_for_each_left_only(branch, line) ==
    IF ~intersection(line, branch.bb) THEN <<>>
    ELSE for_each_intersection_candidate(branch.left, line)

branch_for_each_intersection_candidate(branch, line) ==
    IF ~intersection(line, branch.bb) THEN <<>>
    ELSE for_each_intersection_candidate(branch.left, line)
            \o for_each_intersection_candidate(branch.right, line)

\* bug: the right subtree is not visited
branch_bb_colliding_left_only(branch, bb) ==
    IF ~collides_with(branch.bb, bb) THEN <<>>
    ELSE bb_colliding(branch.left, bb)

branch_bb_colliding(branch, bb) ==
    IF ~collides_with(branch.bb, bb) THEN <<>>
    ELSE bb_colliding(branch.left, bb) \o bb_colliding(branch.right, bb)

branch_bb_crossing_x_value(branch, x) ==
    IF ~crossing_x_value(branch.bb, x) THEN <<>>
    ELSE bb_crossing_x_value(branch.left, x) \o bb_crossing_x_value(branch.right, x)

branch_bb_crossing_y_value(branch, y) ==
    IF ~crossing_y_value(branch.bb, y) THEN <<>>
    ELSE bb_crossing_y_value(branch.left, y) \o bb_crossing_y_value(branch.right, y)

branch_bb_crossing_z_value(branch, z) ==
    IF ~crossing_z_value(branch.bb, z) THEN <<>>
    ELSE bb_crossing_z_value(branch.left, z) \o bb_crossing_z_value(branch.right, z)

for_each_intersection_candidate(t, line) ==
    CASE t.tag = "Empty" -> <<>>
      [] t.tag = "Leaf" -> leaf_for_each_intersection_candidate(t, line)
      [] t.tag = "Branch" -> branch_for_each_intersection_candidate(t, line)

bb_colliding(t, bb) ==
    CASE t.tag = "Empty" -> <<>>
      [] t.tag = "Leaf" -> leaf_bb_colliding(t, bb)
      [] t.tag = "Branch" -> branch_bb_colliding(t, bb)

bb_crossing_x_value(t, x) ==
    CASE t.tag = "Empty" -> <<>>
      [] t.tag = "Leaf" -> leaf_bb_crossing_x_value(t, x)
      [] t.tag = "Branch" -> branch_bb_crossing_x_value(t, x)

bb_crossing_y_value(t, y) ==
    CASE t.tag = "Empty" -> <<>>
      [] t.tag = "Leaf" -> leaf_bb_crossing_y_value(t, y)
      [] t.tag = "Branch" -> branch_bb_crossing_y_value(t, y)

bb_crossing_z_value(t, z) ==
    CASE t.tag = "Empty" -> <<>>
      [] t.tag = "Leaf" -> leaf_bb_crossing_z_value(t, z)
      [] t.tag = "Branch" -> branch_bb_crossing_z_value(t, z)

\* ---------------------------------------------- calc_direction (functions.rs)
Direction == {"PPP", "PPN", "PNP", "PNN", "NPP", "NPN", "NNP", "NNN"}

\* The arms in the order of the source; a point is <<x, y, z>>.
calc_direction(reference, p) ==
    IF p[1] >= reference[1] /\ p[2] >= reference[2] /\ p[3] >= reference[3] THEN "PPP"
    ELSE IF p[1] >= reference[1] /\ p[2] >= reference[2] /\ p[3] < reference[3] THEN "PPN"
    ELSE IF p[1] >= reference[1] /\ p[2] < reference[2] /\ p[3] >= reference[3] THEN "PNP"
    ELSE IF p[1] >= reference[1] /\ p[2] < reference[2] /\ p[3] < reference[3] THEN "PNN"
    ELSE IF p[1] < reference[1] /\ p[2] >= reference[2] /\ p[3] >= reference[3] THEN "NPP"
    ELSE IF p[1] < reference[1] /\ p[2] >= reference[2] /\ p[3] < reference[3] THEN "NPN"
    ELSE IF p[1] >= reference[1] /\ p[2] < reference[2] /\ p[3] >= reference[3] THEN "NNP"
    ELSE "NNN"

\* --------------------------------------------------------------------- state
\* data, maxdepth: the arguments of AABBTree3D::new
\* pc:       "start" before new, "built" after Ok, "failed" after Err,
\*           "done" after the query made on the built tree
\* tree:     the tree new returned (NoTree before, and after Err)
\* recCalls: the number of calls of new_rec made by new
\* query:    the last query made on the tree, result: what it returned (for
\*           the line query: the callback's arguments in invocation order)
\* readers:  the callers that traverse the built tree through a shared
\*           reference, each with the query it is in, the nodes it has still to
\*           visit and what it has collected so far
\* dircall:  a call of calc_direction: its arguments and what it returned
\*           ("none" before it has returned)
VARIABLES data, maxdepth, pc, tree, recCalls, query, result, readers, dircall

vars == <<data, maxdepth, pc, tree, recCalls, query, result, readers, dircall>>

NoBox == PointBox(<<0, 0, 0>>)
NoLine == [anchor |-> <<0, 0, 0>>, dir |-> <<0, 0, 0>>]
Query(kind, bb, v, line) == [kind |-> kind, bb |-> bb, v |-> v, line |-> line]

\* A reader holds the nodes it has still to visit as paths from the root of the
\* shared tree, the one to visit next first.
Readers == {1, 2}
Idle ==
    [pc |-> "idle", query |-> Query("none", NoBox, 0, NoLine), stack |-> <<>>,
     out |-> <<>>, served |-> 0, seen |-> NoTree]

NoDirCall == [reference |-> <<0, 0, 0>>, p |-> <<0, 0, 0>>, direction |-> "none"]

Init ==
    /\ data \in Inputs
    /\ maxdepth \in 0..MaxDepth
    /\ pc = "start"
    /\ tree = NoTree
    /\ recCalls = 0
    /\ query = Query("none", NoBox, 0, NoLine)
    /\ result = <<>>
    /\ readers = [r \in Readers |-> Idle]
    /\ dircall = NoDirCall

New ==
    /\ pc = "start"
    /\ LET r == new(data, maxdepth)
       IN  /\ pc' = IF r.ok THEN "built" ELSE "failed"
           /\ tree' = unwrap(r)
           /\ recCalls' = NumNodes(unwrap(r))
    /\ UNCHANGED <<data, maxdepth, query, result, readers, dircall>>

ForEachIntersectionCandidate ==
    /\ pc = "built"
    /\ \E line \in Lines :
          /\ query' = Query("line", NoBox, 0, line)
          /\ result' = for_each_intersection_candidate(tree, line)
    /\ pc' = "done"
    /\ UNCHANGED <<data, maxdepth, tree, recCalls, readers, dircall>>

BBColliding ==
    /\ pc = "built"
    /\ \E bb \in QueryBoxes \cup {unwrap(bb_of(data))} :
          /\ query' = Query("colliding", bb, 0, NoLine)
          /\ result' = bb_colliding(tree, bb)
    /\ pc' = "done"
    /\ UNCHANGED <<data, maxdepth, tree, recCalls, readers, dircall>>

BBCrossingXValue ==
    /\ pc = "built"
    /\ \E x \in QueryValues :
          /\ query' = Query("crossing_x", NoBox, x, NoLine)
          /\ result' = bb_crossing_x_value(tree, x)
    /\ pc' = "done"
    /\ UNCHANGED <<data, maxdepth, tree, recCalls, readers, dircall>>

BBCrossingYValue ==
    /\ pc = "built"
    /\ \E y \in QueryValues :
          /\ query' = Query("crossing_y", NoBox, y, NoLine)
          /\ result' = bb_crossing_y_value(tree, y)
    /\ pc' = "done"
    /\ UNCHANGED <<data, maxdepth, tree, recCalls, readers, dircall>>

BBCrossingZValue ==
    /\ pc = "built"
    /\ \E z \in QueryValues :
          /\ query' = Query("crossing_z", NoBox, z, NoLine)
          /\ result' = bb_crossing_z_value(tree, z)
    /\ pc' = "done"
    /\ UNCHANGED <<data, maxdepth, tree, recCalls, readers, dircall>>

Next ==
    \/ New
    \/ ForEachIntersectionCandidate
    \/ BBColliding
    \/ BBCrossingXValue
    \/ BBCrossingYValue
    \/ BBCrossingZValue

Spec == Init /\ [][Next]_vars

\* ------------------------------------------------- the three-cube scenario
\* Three cubes on the diagonal, [0,0,0]-[1,1,1], [5,5,5]-[6,6,6] and
\* [10,10,10]-[11,11,11], with every coordinate doubled (5.5 is 11, 100 is 200).
Cube(i, lo, hi) == [id |-> i, ok |-> TRUE, min |-> <<lo, lo, lo>>, max |-> <<hi, hi, hi>>]
ScenarioData == <<Cube(1, 0, 2), Cube(2, 10, 12), Cube(3, 20, 22)>>
ScenarioValues == (-1 .. 23) \cup {200}
ScenarioBoxes ==
    {Box(<<a, a, a>>, <<b, b, b>>) : a \in {-1, 1, 8, 11, 23}, b \in {1, 8, 11, 14, 23}} \cap
    {b \in [min : Seq(Int), max : Seq(Int)] : b.min[1] <= b.max[1]}

ScenarioInit ==
    /\ data = ScenarioData
    /\ maxdepth \in 0..(MaxDepth + 1)
    /\ pc = "start"
    /\ tree = NoTree
    /\ recCalls = 0
    /\ query = Query("none", NoBox, 0, NoLine)
    /\ result = <<>>
    /\ readers = [r \in Readers |-> Idle]
    /\ dircall = NoDirCall

ScenarioBBColliding ==
    /\ pc = "built"
    /\ \E bb \in ScenarioBoxes :
          /\ query' = Query("colliding", bb, 0, NoLine)
          /\ result' = bb_colliding(tree, bb)
    /\ pc' = "done"
    /\ UNCHANGED <<data, maxdepth, tree, recCalls, readers, dircall>>

ScenarioBBCrossingXValue ==
    /\ pc = "built"
    /\ \E x \in ScenarioValues :
          /\ query' = Query("crossing_x", NoBox, x, NoLine)
          /\ result' = bb_crossing_x_value(tree, x)
    /\ pc' = "done"
    /\ UNCHANGED <<data, maxdepth, tree, recCalls, readers, dircall>>

ScenarioBBCrossingYValue ==
    /\ pc = "built"
    /\ \E y \in ScenarioValues :
          /\ query' = Query("crossing_y", NoBox, y, NoLine)
          /\ result' = bb_crossing_y_value(tree, y)
    /\ pc' = "done"
    /\ UNCHANGED <<data, maxdepth, tree, recCalls, readers, dircall>>

ScenarioBBCrossingZValue ==
    /\ pc = "built"
    /\ \E z \in ScenarioValues :
          /\ query' = Query("crossing_z", NoBox, z, NoLine)
          /\ result' = bb_crossing_z_value(tree, z)
    /\ pc' = "done"
    /\ UNCHANGED <<data, maxdepth, tree, recCalls, readers, dircall>>

ScenarioNext ==
    \/ New
    \/ ForEachIntersectionCandidate
    \/ ScenarioBBColliding
    \/ ScenarioBBCrossingXValue
    \/ ScenarioBBCrossingYValue
    \/ ScenarioBBCrossingZValue

SpecScenario == ScenarioInit /\ [][ScenarioNext]_vars

\* ------------------------------------------------------ concurrent readers
\* Every query takes &self: several callers may traverse the same tree, each
\* with a result vector (or callback) of its own.  A traversal is the sequence
\* of its node visits; visits of different readers interleave.

\* Two elements, the first a point at the origin: among these are collections
\* that split cleanly, that share an element between leaves, and that have an
\* Empty arm.
ReaderInputs ==
    {d \in Inputs : /\ Len(d) = 2
                    /\ \A i \in 1..2 : d[i].ok
                    /\ d[1].max = <<0, 0, 0>>}

ReaderQueries ==
    {Query("line", NoBox, 0, Line(<<0, 0, 0>>, <<0, 0, 1>>)),
     Query("colliding", Box(<<-1, -1, 1>>, <<3, 3, 3>>), 0, NoLine),
     Query("crossing_x", NoBox, 0, NoLine),
     Query("crossing_y", NoBox, 2, NoLine),
     Query("crossing_z", NoBox, 1, NoLine)}

RECURSIVE NodeAt(_, _)
NodeAt(t, path) ==
    IF path = <<>> THEN t
    ELSE NodeAt(IF Head(path) = "left" THEN t.left ELSE t.right, Tail(path))

RECURSIVE WithNodeAt(_, _, _)
WithNodeAt(t, path, n) ==
    IF path = <<>> THEN n
    ELSE IF Head(path) = "left"
         THEN [t EXCEPT !.left = WithNodeAt(t.left, Tail(path), n)]
         ELSE [t EXCEPT !.right = WithNodeAt(t.right, Tail(path), n)]

\* the test a Branch or a Leaf makes on its cached box
node_test(q, bb) ==
    CASE q.kind = "line" -> intersection(q.line, bb)
      [] q.kind = "colliding" -> collides_with(bb, q.bb)
      [] q.kind = "crossing_x" -> crossing_x_value(bb, q.v)
      [] q.kind = "crossing_y" -> crossing_y_value(bb, q.v)
      [] q.kind = "crossing_z" -> crossing_z_value(bb, q.v)

\* what the visit of a Leaf adds to the result
leaf_visit(leaf, q) ==
    CASE q.kind = "line" -> leaf_for_each_intersection_candidate(leaf, q.line)
      [] q.kind = "colliding" -> leaf_bb_colliding(leaf, q.bb)
      [] q.kind = "crossing_x" -> leaf_bb_crossing_x_value(leaf, q.v)
      [] q.kind = "crossing_y" -> leaf_bb_crossing_y_value(leaf, q.v)
      [] q.kind = "crossing_z" -> leaf_bb_crossing_z_value(leaf, q.v)

\* a whole query, run without interruption
answer(t, q) ==
    CASE q.kind = "line" -> for_each_intersection_candidate(t, q.line)
      [] q.kind = "colliding" -> bb_colliding(t, q.bb)
      [] q.kind = "crossing_x" -> bb_crossing_x_value(t, q.v)
      [] q.kind = "crossing_y" -> bb_crossing_y_value(t, q.v)
      [] q.kind = "crossing_z" -> bb_crossing_z_value(t, q.v)

ReaderInit ==
    /\ data \in ReaderInputs
    /\ maxdepth = MaxDepth
    /\ pc = "start"
    /\ tree = NoTree
    /\ recCalls = 0
    /\ query = Query("none", NoBox, 0, NoLine)
    /\ result = <<>>
    /\ readers = [r \in Readers |-> Idle]
    /\ dircall = NoDirCall

\* the call of a query on the tree: the root is the first node to visit
ReaderStart(r) ==
    /\ pc = "built"
    /\ readers[r].pc \in {"idle", "done"}
    /\ readers[r].served < MaxQueries
    /\ \E q \in ReaderQueries :
          readers' = [readers EXCEPT ![r] =
                          [pc |-> "running", query |-> q, stack |-> << <<>> >>,
                           out |-> <<>>, served |-> @.served + 1, seen |-> tree]]
    /\ UNCHANGED <<data, maxdepth, pc, tree, recCalls, query, result, dircall>>

\* the nodes left to visit after the visit of the node at path p
rest_after(rd, n, p) ==
    IF n.tag = "Branch" /\ node_test(rd.query, n.bb)
    THEN <<p \o <<"left">>, p \o <<"right">>>> \o Tail(rd.stack)
    ELSE Tail(rd.stack)

\* bug: a visited Branch moves the child it descends into first to the right
ReaderStep_reordering(r) ==
    LET rd == readers[r]
        p == Head(rd.stack)
        n == NodeAt(tree, p)
        rest == rest_after(rd, n, p)
    IN  /\ rd.pc = "running"
        /\ readers' = [readers EXCEPT ![r] =
                [rd EXCEPT !.stack = rest,
                           !.out = IF n.tag = "Leaf" THEN @ \o leaf_visit(n, rd.query) ELSE @,
                           !.pc = IF rest = <<>> THEN "done" ELSE "running"]]
        /\ tree' = IF n.tag = "Branch" /\ node_test(rd.query, n.bb)
                   THEN WithNodeAt(tree, p, [n EXCEPT !.left = n.right, !.right = n.left])
                   ELSE tree
        /\ UNCHANGED <<data, maxdepth, pc, recCalls, query, result, dircall>>

\* bug: the visit of an Empty node does not return
ReaderStep_stuck_on_empty(r) ==
    LET rd == readers[r]
        p == Head(rd.stack)
        n == NodeAt(tree, p)
        rest == IF n.tag = "Empty" THEN rd.stack ELSE rest_after(rd, n, p)
    IN  /\ rd.pc = "running"
        /\ readers' = [readers EXCEPT ![r] =
                [rd EXCEPT !.stack = rest,
                           !.out = IF n.tag = "Leaf" THEN @ \o leaf_visit(n, rd.query) ELSE @,
                           !.pc = IF rest = <<>> THEN "done" ELSE "running"]]
        /\ UNCHANGED <<data, maxdepth, pc, tree, recCalls, query, result, dircall>>

\* bug: the readers collect into one result vector, that of the first reader
\* that is in a query
ReaderStep_shared_result(r) ==
    LET rd == readers[r]
        p == Head(rd.stack)
        n == NodeAt(tree, p)
        rest == rest_after(rd, n, p)
        first == CHOOSE s \in Readers :
                    /\ readers[s].pc = "running"
                    /\ \A u \in Readers : readers[u].pc = "running" => s <= u
        hits == IF n.tag = "Leaf" THEN leaf_visit(n, rd.query) ELSE <<>>
    IN  /\ rd.pc = "running"
        /\ readers' = [s \in Readers |->
                [readers[s] EXCEPT
                    !.stack = IF s = r THEN rest ELSE @,
                    !.pc = IF s = r THEN (IF rest = <<>> THEN "done" ELSE "running") ELSE @,
                    !.out = IF s = first THEN @ \o hits ELSE @]]
        /\ UNCHANGED <<data, maxdepth, pc, tree, recCalls, query, result, dircall>>

\* One node visit of reader r: Empty adds nothing; a Leaf tests its box and
\* then its elements; a Branch tests its box and then has its left and its
\* right child visited, in this order.  The query returns with the last visit.
ReaderStep(r) ==
    LET rd == readers[r]
        p == Head(rd.stack)
        n == NodeAt(tree, p)
        rest == rest_after(rd, n, p)
    IN  /\ rd.pc = "running"
        /\ readers' = [readers EXCEPT ![r] =
                [rd EXCEPT !.stack = rest,
                           !.out = IF n.tag = "Leaf" THEN @ \o leaf_visit(n, rd.query) ELSE @,
                           !.pc = IF rest = <<>> THEN "done" ELSE "running"]]
        /\ UNCHANGED <<data, maxdepth, pc, tree, recCalls, query, result, dircall>>

ReaderNext ==
    \/ New
    \/ \E r \in Readers : ReaderStart(r)
    \/ \E r \in Readers : ReaderStep(r)

SpecReaders == ReaderInit /\ [][ReaderNext]_vars

\* ------------------------------------------------------------ a single caller
\* One caller builds the tree and then makes its queries one after the other.
\* Every call runs synchronously to its return: a step that can be taken is
\* taken.  The trees are built one level deeper than MaxDepth as well.
CallerInit ==
    /\ data \in ReaderInputs
    /\ maxdepth \in 0..(MaxDepth + 1)
    /\ pc = "start"
    /\ tree = NoTree
    /\ recCalls = 0
    /\ query = Query("none", NoBox, 0, NoLine)
    /\ result = <<>>
    /\ readers = [r \in Readers |-> Idle]
    /\ dircall = NoDirCall

CallerNext ==
    \/ New
    \/ ReaderStart(1)
    \/ ReaderStep(1)

SpecCaller ==
    /\ CallerInit
    /\ [][CallerNext]_vars
    /\ WF_vars(New)
    /\ WF_vars(ReaderStep(1))

\* ------------------------------------------------------------ calc_direction
\* Points on, below and above the reference on every axis.
ReferencePoints == {<<x, y, z>> : x \in {0, 1}, y \in {0, 1}, z \in {0, 1}}
DirectionPoints == {<<x, y, z>> : x \in 0..2, y \in 0..2, z \in 0..2}

DirectionInit ==
    /\ data = <<>>
    /\ maxdepth = 0
    /\ pc = "start"
    /\ tree = NoTree
    /\ recCalls = 0
    /\ query = Query("none", NoBox, 0, NoLine)
    /\ result = <<>>
    /\ readers = [r \in Readers |-> Idle]
    /\ dircall \in {[reference |-> r, p |-> q, direction |-> "none"] :
                        r \in ReferencePoints, q \in DirectionPoints}

CalcDirection ==
    /\ dircall.direction = "none"
    /\ dircall' = [dircall EXCEPT !.direction = calc_direction(dircall.reference, dircall.p)]
    /\ UNCHANGED <<data, maxdepth, pc, tree, recCalls, query, result, readers>>

DirectionNext == CalcDirection

SpecDirection == DirectionInit /\ [][DirectionNext]_vars

\* ------------------------------------------------------------------ claims
ToSet(seq) == {seq[i] : i \in 1..Len(seq)}
Count(seq, x) == Cardinality({j \in 1..Len(seq) : seq[j] = x})
Built == pc \in {"built", "done"}
Asked(kind) == pc = "done" /\ query.kind = kind

\* The merged box of the input, computed from the elements' corners directly.
MinOf(S) == CHOOSE m \in S : \A n \in S : m <= n
MaxOf(S) == CHOOSE m \in S : \A n \in S : m >= n
MergedMin(a) == MinOf({data[i].min[a] : i \in 1..Len(data)})
MergedMax(a) == MaxOf({data[i].max[a] : i \in 1..Len(data)})
MergedBox == [min |-> [a \in 1..3 |-> MergedMin(a)], max |-> [a \in 1..3 |-> MergedMax(a)]]

Overlaps(x, q) == \A a \in 1..3 : x.min[a] <= q.max[a] /\ q.min[a] <= x.max[a]
Straddles(x, a, v) == x.min[a] <= v /\ v <= x.max[a]
Hit(x, line) == intersection(line, [min |-> x.min, max |-> x.max])

\* C1: bb_colliding(q) on the tree built from data returns, as a set, exactly
\* the elements of data whose own box collides with q.
C1_CollidingIsBruteForce ==
    Asked("colliding") =>
        ToSet(result) = {x \in ToSet(data) : Overlaps(x, query.bb)}

\* a Branch tree whose collision query returns some elements and leaves some out
C1_Witness ==
    /\ Asked("colliding")
    /\ tree.tag = "Branch"
    /\ result # <<>>
    /\ ToSet(result) # ToSet(data)

\* C2: bb_crossing_x/y/z_value(v) returns, as a set, exactly the elements of
\* data whose box has min <= v <= max on that axis.
C2_CrossingIsBruteForce ==
    /\ Asked("crossing_x") => ToSet(result) = {x \in ToSet(data) : Straddles(x, 1, query.v)}
    /\ Asked("crossing_y") => ToSet(result) = {x \in ToSet(data) : Straddles(x, 2, query.v)}
    /\ Asked("crossing_z") => ToSet(result) = {x \in ToSet(data) : Straddles(x, 3, query.v)}

\* a y query on a Branch tree that tells apart two elements which x cannot
C2_Witness ==
    /\ Asked("crossing_y")
    /\ tree.tag = "Branch"
    /\ result # <<>>
    /\ \E x \in ToSet(data) : Straddles(x, 1, query.v) /\ ~Straddles(x, 2, query.v)

\* C3: for a non-empty collection, bb_colliding with the merged box of all
\* input elements returns every input element at least once.
C3_MergedBoxReturnsAll ==
    (Asked("colliding") /\ data # <<>> /\ query.bb = MergedBox) =>
        \A i \in 1..Len(data) : Count(result, data[i]) >= 1

\* the merged-box query on a Branch tree, with an element returned twice
C3_Witness ==
    /\ Asked("colliding")
    /\ data # <<>>
    /\ query.bb = MergedBox
    /\ tree.tag = "Branch"
    /\ \E i \in 1..Len(data) : Count(result, data[i]) > 1

\* C4 as stated: for_each_intersection_candidate invokes the callback once for
\* every input element whose bounding box intersects the line.
C4_CallbackExactlyOnce ==
    Asked("line") =>
        \A x \in ToSet(data) : Hit(x, query.line) => Count(result, x) = 1

\* C4 amended: for_each_intersection_candidate invokes the callback at least
\* once for every input element whose bounding box intersects the line.
C4_CallbackAtLeastOnce ==
    Asked("line") =>
        \A x \in ToSet(data) : Hit(x, query.line) => Count(result, x) >= 1

\* an element held by the leaves of both sides of a Branch, passed to the callback twice
C4_Witness ==
    /\ Asked("line")
    /\ tree.tag = "Branch"
    /\ \E x \in ToSet(data) : Hit(x, query.line) /\ Count(result, x) = 2

\* C5: the callback is never invoked with an element whose own bounding box
\* does not intersect the query line.
C5_CallbackOnlyOnHits ==
    Asked("line") =>
        \A j \in 1..Len(result) : Hit(result[j], query.line)

\* a leaf whose box the line intersects, with an element the line hits and one it misses
C5_Witness ==
    /\ Asked("line")
    /\ tree.tag = "Leaf"
    /\ result # <<>>
    /\ \E x \in ToSet(tree.data) : ~Hit(x, query.line)

\* C6: if some element of the input fails to produce a bounding box, new returns
\* an error, never enters new_rec and creates no tree node.
C6_MissingBoxFailsBeforeRecursion ==
    (pc # "start" /\ \E i \in 1..Len(data) : ~data[i].ok) =>
        /\ pc = "failed"
        /\ tree = NoTree
        /\ recCalls = 0

\* new has failed on a collection that also holds an element with a box
C6_Witness ==
    /\ pc = "failed"
    /\ \E i \in 1..Len(data) : ~data[i].ok
    /\ \E i \in 1..Len(data) : data[i].ok

\* C7: for an empty input and any maxdepth, new produces Empty; every query on
\* it returns an empty result, the line query invokes the callback zero times.
C7_EmptyInput ==
    (data = <<>> /\ pc # "start") =>
        /\ Built
        /\ tree = Empty
        /\ recCalls = 1
        /\ pc = "done" => result = <<>>

\* the line query has been made on the tree of the empty collection
C7_Witness ==
    /\ data = <<>>
    /\ Asked("line")
    /\ maxdepth > 0

\* C8: for a single-element collection and any maxdepth, new produces a Leaf
\* holding exactly that element, whose cached box is the element's own box.
C8_SingleElementLeaf ==
    (Len(data) = 1 /\ Built) =>
        /\ tree.tag = "Leaf"
        /\ tree.data = data
        /\ tree.bb = [min |-> data[1].min, max |-> data[1].max]

\* built from one element that is off the origin, with maxdepth 0
C8_Witness ==
    /\ Len(data) = 1
    /\ Built
    /\ maxdepth = 0
    /\ data[1].min = <<2, 2, 2>>

\* C9 as stated: with maxdepth = 0, new always produces a single Leaf holding
\* all input elements, regardless of collection size.
C9_DepthZeroAlwaysLeaf ==
    (maxdepth = 0 /\ Built) =>
        /\ tree.tag = "Leaf"
        /\ tree.data = data

\* C9 amended: with maxdepth = 0, new produces a single Leaf holding all input
\* elements for every non-empty collection (the empty collection gives Empty).
C9_DepthZeroLeafIfNonEmpty ==
    (maxdepth = 0 /\ Built /\ data # <<>>) =>
        /\ tree.tag = "Leaf"
        /\ tree.data = data

\* maxdepth 0 and two elements that lie apart on x, which a split would separate
C9_Witness ==
    /\ maxdepth = 0
    /\ Built
    /\ Len(data) = 2
    /\ \E i, j \in 1..2 : data[i].max[1] < data[j].min[1]

\* C10: a bb_crossing_*_value query at a value strictly below the minimum or
\* strictly above the maximum of the merged box on that axis returns nothing.
C10_OutsideMergedBoxIsEmpty ==
    \A a \in 1..3 :
        (/\ Asked(<<"crossing_x", "crossing_y", "crossing_z">>[a])
         /\ data # <<>>
         /\ (query.v < MergedMin(a) \/ query.v > MergedMax(a)))
        => result = <<>>

\* a z query outside the merged z range but inside the merged x range
C10_Witness ==
    /\ Asked("crossing_z")
    /\ data # <<>>
    /\ query.v > MergedMax(3)
    /\ query.v <= MergedMax(1)
    /\ query.v >= MergedMin(1)

InScenario == data = ScenarioData /\ maxdepth = 4

\* C11 as stated: on the three cubes with maxdepth = 4, bb_colliding with
\* [4,4,4]-[7,7,7] returns exactly the second element, bb_crossing_x_value(5.5)
\* returns exactly the second element, bb_crossing_x_value(100) returns nothing.
C11_ScenarioSecondOnce ==
    InScenario =>
        /\ (Asked("colliding") /\ query.bb = Box(<<8, 8, 8>>, <<14, 14, 14>>))
                => result = <<ScenarioData[2]>>
        /\ (Asked("crossing_x") /\ query.v = 11) => result = <<ScenarioData[2]>>
        /\ (Asked("crossing_x") /\ query.v = 200) => result = <<>>

\* C11 amended: the first two queries return the second element and no other
\* element, and return it twice (once from each subtree of the root, whose
\* centre x = 5.5 the second cube straddles); the third returns nothing.
C11_ScenarioSecondTwice ==
    InScenario =>
        /\ (Asked("colliding") /\ query.bb = Box(<<8, 8, 8>>, <<14, 14, 14>>))
                => result = <<ScenarioData[2], ScenarioData[2]>>
        /\ (Asked("crossing_x") /\ query.v = 11)
                => result = <<ScenarioData[2], ScenarioData[2]>>
        /\ (Asked("crossing_x") /\ query.v = 200) => result = <<>>

\* the crossing query at 5.5 has been made on the scenario's tree, a Branch of Branches
C11_Witness ==
    /\ InScenario
    /\ Asked("crossing_x")
    /\ query.v = 11
    /\ tree.tag = "Branch"
    /\ tree.left.tag = "Branch"
    /\ tree.right.tag = "Branch"

\* The leaves of a tree with their depths, and the elements they store.
RECURSIVE LeavesAt(_, _)
LeavesAt(t, d) ==
    CASE t.tag = "Leaf" -> {[depth |-> d, leaf |-> t]}
      [] t.tag = "Branch" -> LeavesAt(t.left, d + 1) \cup LeavesAt(t.right, d + 1)
      [] OTHER -> {}

\* The branches of a tree with their depths.
RECURSIVE BranchesAt(_, _)
BranchesAt(t, d) ==
    CASE t.tag = "Branch" ->
            {[depth |-> d, branch |-> t]} \cup BranchesAt(t.left, d + 1)
                \cup BranchesAt(t.right, d + 1)
      [] OTHER -> {}

\* The elements stored in the leaves of a subtree.
RECURSIVE StoredIn(_)
StoredIn(t) ==
    CASE t.tag = "Leaf" -> ToSet(t.data)
      [] t.tag = "Branch" -> StoredIn(t.left) \cup StoredIn(t.right)
      [] OTHER -> {}

Leaves == {n.leaf : n \in LeavesAt(tree, 0)}
Branches == {n.branch : n \in BranchesAt(tree, 0)}
Stored == StoredIn(tree)

\* C13: on every tree a successful new returns, every element stored in a leaf
\* has a defined bounding box, so no query's bounding_box().unwrap() fails and
\* every query returns a result.
C13_QueriesTotal ==
    Built =>
        /\ \A x \in Stored : bounding_box(x).ok
        /\ pc = "done" => \A i \in 1..Len(result) : result[i] \in Stored

\* a query has answered on a tree with branches, built from a collection that passed the check
C13_Witness ==
    /\ pc = "done"
    /\ tree.tag = "Branch"
    /\ Len(result) >= 2
    /\ Cardinality(Leaves) >= 2

\* The state in which new has just returned the tree; no query changes it.
JustBuilt == pc = "built"

ElemBox(x) == [min |-> x.min, max |-> x.max]

\* The smallest box around a non-empty set of boxes, from their corners directly.
MergeOfBoxes(S) ==
    [min |-> [a \in 1..3 |-> MinOf({b.min[a] : b \in S})],
     max |-> [a \in 1..3 |-> MaxOf({b.max[a] : b \in S})]]

\* Every node of a tree with its depth and the elements new_rec was handed for it.
RECURSIVE NodesOf(_, _, _)
NodesOf(t, input, d) ==
    {[node |-> t, input |-> input, depth |-> d]} \cup
    (IF t.tag # "Branch" THEN {}
     ELSE LET comp == Compare_of(d)
              c == center_bb(unwrap(bb_of(input)))
          IN  NodesOf(t.left, dleft_of(input, comp, c), d + 1) \cup
              NodesOf(t.right, dright_of(input, comp, c), d + 1))

Nodes == NodesOf(tree, data, 0)
AxisAt(d) == (d % 3) + 1

\* C16: every Leaf's cached box equals the merge of the individual bounding
\* boxes of exactly the elements stored in that leaf.
C16_LeafBoxIsMergeOfItsElements ==
    JustBuilt =>
        \A l \in Leaves :
            l.data # <<>> => l.bb = MergeOfBoxes({ElemBox(x) : x \in ToSet(l.data)})

\* a leaf below a branch holds two elements, and its box is neither element's own box
C16_Witness ==
    /\ Built
    /\ tree.tag = "Branch"
    /\ \E l \in Leaves :
          /\ Len(l.data) = 2
          /\ l.bb # ElemBox(l.data[1])
          /\ l.bb # ElemBox(l.data[2])

\* C17: every Branch's cached box equals the merge of its two children's cached
\* boxes (an Empty child has no cached box and adds nothing to the merge).
C17_BranchBoxIsMergeOfChildren ==
    JustBuilt =>
        \A b \in Branches :
            LET kids == {c \in {b.left, b.right} : c.tag # "Empty"}
            IN  /\ kids # {}
                /\ b.bb = MergeOfBoxes({c.bb : c \in kids})

\* a branch whose children both have a box, each smaller than the branch's box
C17_Witness ==
    /\ Built
    /\ \E b \in Branches :
          /\ b.left.tag # "Empty"
          /\ b.right.tag # "Empty"
          /\ b.left.bb # b.bb
          /\ b.right.bb # b.bb
          /\ b.left.bb # b.right.bb

\* C18: no Branch exists at depth >= maxdepth and no node lies deeper than
\* maxdepth; a node reached at depth >= maxdepth with two or more elements is a
\* single Leaf holding all of them.
C18_DepthBoundedByMaxdepth ==
    JustBuilt =>
        \A n \in Nodes :
            /\ n.depth <= maxdepth
            /\ n.node.tag = "Branch" => n.depth < maxdepth
            /\ (n.depth >= maxdepth /\ Len(n.input) >= 2) =>
                    (n.node.tag = "Leaf" /\ n.node.data = n.input)

\* below the root, at depth maxdepth, a leaf holds two elements that lie apart
\* on the axis the next split would have used
C18_Witness ==
    /\ Built
    /\ maxdepth >= 1
    /\ \E n \in Nodes :
          /\ n.depth = maxdepth
          /\ n.node.tag = "Leaf"
          /\ Len(n.input) = 2
          /\ n.input[1].max[AxisAt(n.depth)] < n.input[2].min[AxisAt(n.depth)]

C20_LeavesCoverExactlyInput ==
    JustBuilt => Stored = ToSet(data)

\* a tree of several leaves, one element stored in two of them
C20_Witness ==
    /\ Built
    /\ Len(data) = 2
    /\ \E l1 \in Leaves : \E l2 \in Leaves :
          /\ l1 # l2
          /\ ToSet(l1.data) \cap ToSet(l2.data) # {}
          /\ ToSet(l1.data) # ToSet(l2.data)

\* What the visits still to be made by a reader will add to its result.
RECURSIVE Pending(_, _)
Pending(stack, q) ==
    IF stack = <<>> THEN <<>>
    ELSE answer(NodeAt(tree, Head(stack)), q) \o Pending(Tail(stack), q)

\* C14: once built the tree never changes, whatever queries are made on it
\* (shape, cached boxes and leaf sequences are all part of the tree value), and
\* the result of every finished query is the result the same query has on the
\* tree as new built it, whatever queries ran before.
C14_TreeImmutableAfterConstruction ==
    /\ [][pc = "built" => tree' = tree]_vars
    /\ [](\A r \in Readers :
            readers[r].pc = "done" =>
                readers[r].out = answer(unwrap(new(data, maxdepth)), readers[r].query))

\* one caller has made several queries, one after the other, on a tree with
\* branches, and the last one found something
C14_Witness ==
    /\ pc = "built"
    /\ tree.tag = "Branch"
    /\ readers[1].pc = "done"
    /\ readers[1].served >= 2
    /\ readers[1].out # <<>>
    /\ readers[2].pc = "idle"

\* C15: whatever the interleaving of the readers' node visits, every reader is
\* looking at the tree it started on, what it has collected together with what
\* its remaining visits will add is the result of its query run alone, and a
\* finished reader has exactly that result.
C15_InterleavedReadersAgree ==
    \A r \in Readers :
        readers[r].pc # "idle" =>
            /\ readers[r].seen = tree
            /\ readers[r].out \o Pending(readers[r].stack, readers[r].query)
                    = answer(tree, readers[r].query)
            /\ readers[r].pc = "done" =>
                    readers[r].out = answer(tree, readers[r].query)

\* two readers in the middle of different queries at the same time, each with
\* elements collected and nodes still to visit
C15_Witness ==
    /\ \A r \in Readers :
          /\ readers[r].pc = "running"
          /\ readers[r].out # <<>>
          /\ readers[r].stack # <<>>
    /\ readers[1].query.kind # readers[2].query.kind
    /\ readers[1].out # readers[2].out

\* The paths from the root to the nodes of a tree, one per node.
RECURSIVE PathsOf(_)
PathsOf(t) ==
    {<<>>} \cup
    (IF t.tag # "Branch" THEN {}
     ELSE {<<"left">> \o p : p \in PathsOf(t.left)} \cup
          {<<"right">> \o p : p \in PathsOf(t.right)})

\* The predicate of a query on one element, from the element's corners.
Satisfies(x, q) ==
    CASE q.kind = "line" -> Hit(x, q.line)
      [] q.kind = "colliding" -> Overlaps(x, q.bb)
      [] q.kind = "crossing_x" -> Straddles(x, 1, q.v)
      [] q.kind = "crossing_y" -> Straddles(x, 2, q.v)
      [] q.kind = "crossing_z" -> Straddles(x, 3, q.v)
      [] OTHER -> FALSE

\* C21: every Leaf of a built tree holds at least one element, and a node that
\* was handed zero elements is Empty (and only such a node is).
C21_LeavesNonEmpty ==
    JustBuilt =>
        /\ \A l \in Leaves : Len(l.data) >= 1
        /\ \A n \in Nodes : (Len(n.input) = 0) <=> (n.node = Empty)

\* below a Branch, a partition of zero elements next to a Leaf
C21_Witness ==
    /\ JustBuilt
    /\ \E n \in Nodes : n.depth >= 1 /\ Len(n.input) = 0 /\ n.node = Empty
    /\ \E n \in Nodes : n.depth >= 1 /\ n.node.tag = "Leaf"

\* The number of leaves of a subtree that hold a copy of x.
RECURSIVE CopiesIn(_, _)
CopiesIn(t, x) ==
    CASE t.tag = "Leaf" -> IF \E i \in 1..Len(t.data) : t.data[i] = x THEN 1 ELSE 0
      [] t.tag = "Branch" -> CopiesIn(t.left, x) + CopiesIn(t.right, x)
      [] OTHER -> 0

Copies(x) == CopiesIn(tree, x)

\* C22: in the result of every query an input element that satisfies the
\* query's predicate appears once for each leaf that holds a copy of it, which
\* is at least once; an element that does not satisfy it does not appear.
C22_OncePerLeafCopy ==
    pc = "done" =>
        \A x \in ToSet(data) :
            /\ Copies(x) >= 1
            /\ Count(result, x) = IF Satisfies(x, query) THEN Copies(x) ELSE 0

\* one element comes back twice, from two leaves, another one once
C22_Witness ==
    /\ pc = "done"
    /\ \E x \in ToSet(data) : Copies(x) = 2 /\ Count(result, x) = 2
    /\ \E y \in ToSet(data) : Copies(y) = 1 /\ Count(result, y) = 1

\* The centre coordinate of a box on axis a, from its corners.
CentreOn(bb, a) == bb.min[a] + ((bb.max[a] - bb.min[a]) \div 2)
AxisOf(comp) == CASE comp = "X" -> 1 [] comp = "Y" -> 2 [] comp = "Z" -> 3

\* C23: at every Branch the left subtree holds exactly the node's elements
\* whose box minimum on the split axis is below the centre of the node's box,
\* the right subtree exactly those whose box maximum is at or above it; an
\* element that straddles the centre is in both.
C23_PlacementRule ==
    JustBuilt =>
        \A n \in BranchesAt(tree, 0) :
            LET b == n.branch
                a == AxisOf(Compare_of(n.depth))
                cc == CentreOn(b.bb, a)
                here == StoredIn(b)
            IN  /\ StoredIn(b.left) = {x \in here : x.min[a] < cc}
                /\ StoredIn(b.right) = {x \in here : x.max[a] >= cc}
                /\ \A x \in here :
                      (x.min[a] < cc /\ x.max[a] >= cc) =>
                          x \in StoredIn(b.left) \cap StoredIn(b.right)

\* a Branch with an element on the left only and one that straddles the centre
C23_Witness ==
    /\ JustBuilt
    /\ \E n \in BranchesAt(tree, 0) :
          LET b == n.branch
          IN  /\ \E x \in StoredIn(b.left) : x \notin StoredIn(b.right)
              /\ \E y \in StoredIn(b.left) \cap StoredIn(b.right) :
                    y.min[AxisAt(n.depth)] < y.max[AxisAt(n.depth)]

\* The elements under a Branch are divided by their coordinates on axis a.
SplitsOn(b, a) ==
    LET cc == CentreOn(b.bb, a)
    IN  /\ \A x \in StoredIn(b.left) : x.min[a] < cc
        /\ \A x \in StoredIn(b.right) : x.max[a] >= cc
        /\ \A x \in StoredIn(b) \ StoredIn(b.left) : x.min[a] >= cc
        /\ \A x \in StoredIn(b) \ StoredIn(b.right) : x.max[a] < cc

\* C24: a Branch at depth d divides its elements on x if d mod 3 = 0, on y if
\* d mod 3 = 1 and on z if d mod 3 = 2, whatever the elements are.
C24_AxisCyclesWithDepth ==
    JustBuilt =>
        \A n \in BranchesAt(tree, 0) :
            /\ n.depth % 3 = 0 => SplitsOn(n.branch, 1)
            /\ n.depth % 3 = 1 => SplitsOn(n.branch, 2)
            /\ n.depth % 3 = 2 => SplitsOn(n.branch, 3)

\* a Branch at depth 3, back on x, that divides two elements which only x
\* tells apart, below a Branch at depth 2
C24_Witness ==
    /\ JustBuilt
    /\ \E n \in BranchesAt(tree, 0) :
          /\ n.depth = 3
          /\ SplitsOn(n.branch, 1)
          /\ ~SplitsOn(n.branch, 2)
          /\ ~SplitsOn(n.branch, 3)
    /\ \E n \in BranchesAt(tree, 0) : n.depth = 2

\* Every element of a sequence of elements has its box on both sides of the
\* centre of their merged box on axis a: minimum below it, maximum at or above.
AllOnBothSides(input, a) ==
    LET lo == MinOf({input[i].min[a] : i \in 1..Len(input)})
        hi == MaxOf({input[i].max[a] : i \in 1..Len(input)})
        cc == lo + ((hi - lo) \div 2)
    IN  \A i \in 1..Len(input) : input[i].min[a] < cc /\ input[i].max[a] >= cc

\* C25: a node that was handed two or more elements at a depth below maxdepth
\* is a Leaf of all of them if every element goes to both the left and the
\* right set, and a Branch in every other case.
C25_DegenerateSplitIsLeaf ==
    JustBuilt =>
        \A n \in Nodes :
            (Len(n.input) >= 2 /\ n.depth < maxdepth) =>
                IF AllOnBothSides(n.input, AxisAt(n.depth))
                THEN n.node.tag = "Leaf" /\ n.node.data = n.input
                ELSE n.node.tag = "Branch"

\* below the root and above maxdepth, a Leaf of two elements that both
\* straddle the centre
C25_Witness ==
    /\ JustBuilt
    /\ \E n \in Nodes :
          /\ n.depth >= 1
          /\ n.depth < maxdepth
          /\ Len(n.input) = 2
          /\ AllOnBothSides(n.input, AxisAt(n.depth))
          /\ n.node.tag = "Leaf"

\* The stored elements of a tree, leaf after leaf from left to right, each
\* leaf in its stored order.
RECURSIVE InOrder(_)
InOrder(t) ==
    CASE t.tag = "Leaf" -> t.data
      [] t.tag = "Branch" -> InOrder(t.left) \o InOrder(t.right)
      [] OTHER -> <<>>

\* C26: the callback invocations of the line query, and the results of
\* bb_colliding and bb_crossing_*_value, are the stored elements that satisfy
\* the query taken leaf after leaf from left to right, so everything from a
\* Branch's left subtree precedes everything from its right subtree; within a
\* leaf the elements are in the order they have in the input collection.
C26_LeftBeforeRightInStoredOrder ==
    /\ pc = "done" =>
            result = SelectSeq(InOrder(tree), LAMBDA x : Satisfies(x, query))
    /\ JustBuilt =>
            \A l \in Leaves :
                \A i \in 1..Len(l.data) : \A j \in 1..Len(l.data) :
                    i < j => l.data[i].id < l.data[j].id

\* the line query calls back for a later input element, on the left, before
\* an earlier one, on the right
C26_Witness ==
    /\ Asked("line")
    /\ tree.tag = "Branch"
    /\ Len(result) = 2
    /\ result[1].id > result[2].id
    /\ result[1] \in StoredIn(tree.left)
    /\ result[2] \in StoredIn(tree.right)

\* A query answered without any test of a cached box: every stored element is
\* tested by itself.
RECURSIVE Unpruned(_, _)
Unpruned(t, q) ==
    CASE t.tag = "Leaf" -> SelectSeq(t.data, LAMBDA x : Satisfies(x, q))
      [] t.tag = "Branch" -> Unpruned(t.left, q) \o Unpruned(t.right, q)
      [] OTHER -> <<>>

Encloses(bb, x) == \A a \in 1..3 : bb.min[a] <= x.min[a] /\ x.max[a] <= bb.max[a]

\* No Leaf or Branch of t whose cached box fails the test of q stores an
\* element that satisfies q.
RECURSIVE NothingLost(_, _)
NothingLost(t, q) ==
    CASE t.tag = "Leaf" ->
            node_test(q, t.bb) \/ \A i \in 1..Len(t.data) : ~Satisfies(t.data[i], q)
      [] t.tag = "Branch" ->
            IF node_test(q, t.bb)
            THEN NothingLost(t.left, q) /\ NothingLost(t.right, q)
            ELSE \A x \in StoredIn(t) : ~Satisfies(x, q)
      [] OTHER -> TRUE

\* C28: the cached box of every Leaf and Branch encloses the box of every
\* element stored below it; no node that a query skips on its cached box stores
\* an element that satisfies the query, and the query gives what it gives
\* without any test of a cached box.
C28_RejectionLosesNothing ==
    /\ JustBuilt =>
            \A p \in PathsOf(tree) :
                LET n == NodeAt(tree, p)
                IN  n.tag # "Empty" => \A x \in StoredIn(n) : Encloses(n.bb, x)
    /\ pc = "done" =>
            /\ NothingLost(tree, query)
            /\ result = Unpruned(tree, query)

\* a query that a subtree's cached box rejects while its sibling answers
C28_Witness ==
    /\ pc = "done"
    /\ tree.tag = "Branch"
    /\ result # <<>>
    /\ \E p \in PathsOf(tree) :
          LET n == NodeAt(tree, p)
          IN  /\ n.tag \in {"Leaf", "Branch"}
              /\ ~node_test(query, n.bb)
              /\ Cardinality(StoredIn(n)) >= 1

\* C29: at every Branch the elements stored under either child are elements
\* the node was handed, and at least one child stores strictly fewer elements
\* than the node was handed.
C29_SplitMakesProgress ==
    JustBuilt =>
        \A n \in Nodes :
            n.node.tag = "Branch" =>
                LET L == StoredIn(n.node.left)
                    R == StoredIn(n.node.right)
                    P == ToSet(n.input)
                IN  /\ L \subseteq P
                    /\ R \subseteq P
                    /\ L \cup R = P
                    /\ Cardinality(L) < Cardinality(P) \/ Cardinality(R) < Cardinality(P)

\* a Branch one of whose children holds all of its elements and the other one
\* some but not all
C29_Witness ==
    /\ JustBuilt
    /\ \E n \in Nodes :
          /\ n.node.tag = "Branch"
          /\ Len(n.input) = 2
          /\ StoredIn(n.node.left) = ToSet(n.input)
          /\ Cardinality(StoredIn(n.node.right)) = 1

\* C27: new returns, having made at most 2^(maxdepth+1) - 1 calls of new_rec
\* (one per node, none deeper than maxdepth), and every query that was started
\* on the tree returns.
C27_ConstructionAndQueriesTerminate ==
    /\ <>(pc = "built")
    /\ [](Built => /\ recCalls <= 2^(maxdepth + 1) - 1
                   /\ \A n \in LeavesAt(tree, 0) \cup BranchesAt(tree, 0) :
                         n.depth <= maxdepth)
    /\ (readers[1].pc = "running") ~> (readers[1].pc = "done")

\* two elements with the same box, which no split tells apart: new went down
\* to maxdepth, one call for each side at every depth, and a query on the tree
\* has returned both
C27_Witness ==
    /\ pc = "built"
    /\ maxdepth = MaxDepth + 1
    /\ Len(data) = 2
    /\ ElemBox(data[1]) = ElemBox(data[2])
    /\ recCalls = 2 * maxdepth + 1
    /\ readers[1].pc = "done"
    /\ Len(readers[1].out) >= 2

\* The octant named by three comparisons: P for >=, N for <.
Returned == dircall.direction # "none"
Sign(pc1, rc1) == IF pc1 >= rc1 THEN "P" ELSE "N"
Signs(d) ==
    CASE d = "PPP" -> <<"P", "P", "P">> [] d = "PPN" -> <<"P", "P", "N">>
      [] d = "PNP" -> <<"P", "N", "P">> [] d = "PNN" -> <<"P", "N", "N">>
      [] d = "NPP" -> <<"N", "P", "P">> [] d = "NPN" -> <<"N", "P", "N">>
      [] d = "NNP" -> <<"N", "N", "P">> [] d = "NNN" -> <<"N", "N", "N">>
Octant(reference, p) ==
    CHOOSE d \in Direction :
        Signs(d) = <<Sign(p[1], reference[1]), Sign(p[2], reference[2]), Sign(p[3], reference[3])>>

\* C30: calc_direction(reference, p) returns the octant of the three
\* comparisons of p with reference, for each of the eight combinations.
C30_DirectionMatchesComparisons ==
    Returned => dircall.direction = Octant(dircall.reference, dircall.p)

\* p below the reference on x and y and not below it on z: the call returns
\* NNN, where the comparisons name NNP
C30_Witness ==
    /\ Returned
    /\ dircall.reference = <<1, 1, 1>>
    /\ dircall.p = <<0, 0, 1>>
    /\ dircall.direction = "NNN"
    /\ Octant(dircall.reference, dircall.p) = "NNP"
====
